---- MODULE Spec2Model ----
(***************************************************************************)
(* The entity registries of skillic: User and Outcome (src/unnamed/        *)
(* part_001), Course (src/unnamed/part_000) and Session                    *)
(* (src/src/session/session.ts).  Each registry is a StableBTreeMap from   *)
(* a generated id to a record; every exported operation is one action,     *)
(* run to completion (the canister handles one call at a time).            *)
(*                                                                         *)
(* Strings are sequences of one-character strings, so that trim() is       *)
(* computed and not assumed.  An Opt<T> is a set with at most one          *)
(* element: {} is None, {x} is Some(x); Date | null is modelled the same   *)
(* way.                                                                    *)
(***************************************************************************)
EXTENDS Integers, Sequences, FiniteSets, TLC

VARIABLES usersStorage, outcomesStorage, coursesStorage, sessionsStorage,
          time, nextId

vars == <<usersStorage, outcomesStorage, coursesStorage, sessionsStorage,
          time, nextId>>

storages == <<usersStorage, outcomesStorage, coursesStorage, sessionsStorage>>

----------------------------------------------------------------------------
(* Bounds of the model *)

\* how many ids uuidv4() hands out in one run
MaxIds == 3
\* ic.time() is in nanoseconds, a Date in milliseconds
NsPerMs == 1000000

\* the ids a call may name: those uuidv4() hands out, live or not
Ids == 1 .. MaxIds

----------------------------------------------------------------------------
(* Strings *)

\* the whitespace String.prototype.trim() strips
WhiteSpace == {" "}

RECURSIVE trimStart(_)
trimStart(s) ==
    IF s # <<>> /\ Head(s) \in WhiteSpace THEN trimStart(Tail(s)) ELSE s

RECURSIVE trimEnd(_)
trimEnd(s) ==
    IF s # <<>> /\ s[Len(s)] \in WhiteSpace
    THEN trimEnd(SubSeq(s, 1, Len(s) - 1))
    ELSE s

trim(s) == trimEnd(trimStart(s))

----------------------------------------------------------------------------
(* The payloads the calls are made with *)

Names   == { <<"n", "n">> }
Pseudos == { <<" ">>, <<"p">>, <<" ", "p">>, <<"q", "q", "q">> }
Urls    == { <<"u">> }
OutcomeTitles == { <<" ">>, <<"t">>, <<" ", "t">> }
CourseTitles  == { <<"c">>, <<" ", "c">> }
\* a blank string, for the calls that leave a required field blank
Blank == <<" ">>

\* OutcomeType, and the null a payload may carry in its place
OutcomeType == {"SKILL", "CERTIFICATION", "CERTIFIED_SKILL"}
Null == "null"
PayloadTypes == {"SKILL", Null}

\* an outcomes list: empty, or one id
OutcomeLists == {<<>>} \cup { <<i>> : i \in Ids }

UserPayloads == [name : Names, pseudo : Pseudos, avatarURL : Urls]
OutcomePayloads == [title : OutcomeTitles, type : PayloadTypes]
CoursePayloads == [title : CourseTitles, outcomes : OutcomeLists, creatorId : Ids]

\* a SessionPayload: a course, an owner, and a place and time to meet
SessionPayloads ==
    [course : Ids, owner : Ids, place : {<<"r">>}, date : {0}, time : {0},
     length : {1}, learnerCapacity : {1}]

\* the same, with the payloads whose name or title is blank
UserPayloadsBlank ==
    [name : Names \cup {Blank}, pseudo : Pseudos, avatarURL : Urls]
CoursePayloadsBlank ==
    [title : CourseTitles \cup {Blank}, outcomes : OutcomeLists, creatorId : Ids]

\* the same, with the payloads whose name has one character
UserPayloadsShort ==
    [name : Names \cup {<<"n">>}, pseudo : Pseudos, avatarURL : Urls]

----------------------------------------------------------------------------
(* StableBTreeMap, Opt and object spread *)

None == {}
Some(x) == {x}

containsKey(m, k) == k \in DOMAIN m
get(m, k) == IF k \in DOMAIN m THEN Some(m[k]) ELSE None
insert(m, k, v) == [x \in DOMAIN m \cup {k} |-> IF x = k THEN v ELSE m[x]]
\* mutant of remove: the keys after k go with it
removeFrom(m, k) == [x \in {y \in DOMAIN m : y < k} |-> m[x]]

remove(m, k) == [x \in DOMAIN m \ {k} |-> m[x]]

\* values(): the stored records in key order.  The handlers only scan it
\* for a match, which is a match among the records the map holds.
RECURSIVE keysInOrder(_)
keysInOrder(K) ==
    IF K = {} THEN <<>>
    ELSE LET k == CHOOSE x \in K : \A y \in K : x <= y
         IN <<k>> \o keysInOrder(K \ {k})

values(m) == LET ks == keysInOrder(DOMAIN m) IN [i \in 1 .. Len(ks) |-> m[ks[i]]]

\* { ...a, ...b }
spread(a, b) == b @@ a

\* getCurrentDate(): new Date(ic.time() / 1000_000), a Date holds whole ms
getCurrentDate == time \div NsPerMs

\* mutant of uuidv4: the id is the number of records held, plus one
uuidFromCount ==
    Cardinality(DOMAIN usersStorage \cup DOMAIN outcomesStorage
                \cup DOMAIN coursesStorage) + 1

\* uuidv4(): a value it has not returned before
uuidv4 == nextId

----------------------------------------------------------------------------
(* What a call returns, and what it leaves in its registry's map *)

\* an error string
Error(msg) == [kind |-> "error", msg |-> msg, val |-> {}]
\* a record
Record(r) == [kind |-> "record", msg |-> "", val |-> {r}]
\* an Opt of a record
OptOf(o) == [kind |-> "opt", msg |-> "", val |-> o]

\* the call returns r and leaves the map m
Returned(r, m) == [ret |-> r, store |-> m]

----------------------------------------------------------------------------
(* User registry: src/unnamed/part_001, lines 1-184 *)

ErrAddUserInvalid    == "Error: invalid payload"
ErrAddUserPseudo     == "Error: can't create user cause pseudo already exists"
ErrUpdateUserNoUser  == "Error: can't update user cause no user found matching id"
ErrUpdateUserPseudo  == "Error: can't update user cause pseudo already exists"
ErrUpdateUserInvalid == "Error: can't update user cause unvalid payload"
ErrRemoveUserNoUser  == "can't remove user cause no user found matching id"

getUsers == values(usersStorage)

getUser(userId) == get(usersStorage, userId)

\* mutant of checkPseudo: the pseudos are compared as they are, untrimmed
checkPseudoUntrimmed(pseudo) ==
    \E k \in DOMAIN usersStorage : usersStorage[k].pseudo = pseudo

checkPseudo(pseudo) ==
    \E k \in DOMAIN usersStorage : trim(usersStorage[k].pseudo) = trim(pseudo)

checkUserId(userId) == containsKey(usersStorage, userId)

checkPayload(payload) == Len(trim(payload.name)) + Len(trim(payload.pseudo)) > 2

addUser(payload) ==
    IF ~checkPayload(payload) THEN Returned(Error(ErrAddUserInvalid), usersStorage)
    ELSE IF checkPseudo(payload.pseudo)
    THEN Returned(Error(ErrAddUserPseudo), usersStorage)
    ELSE LET user == spread(spread([id |-> uuidv4], payload),
                            [createdAt |-> getCurrentDate, updatedAt |-> None])
         IN Returned(Record(user), insert(usersStorage, user.id, user))

\* mutant of updateUser: updatedAt is left as the stored record has it
updateUserUnstamped(userId, payload) ==
    IF ~checkUserId(userId) THEN Returned(Error(ErrUpdateUserNoUser), usersStorage)
    ELSE IF checkPseudo(payload.pseudo)
    THEN Returned(Error(ErrUpdateUserPseudo), usersStorage)
    ELSE IF ~checkPayload(payload)
    THEN Returned(Error(ErrUpdateUserInvalid), usersStorage)
    ELSE LET user == CHOOSE u \in getUser(userId) : TRUE
             updatedUser == spread(spread([id |-> userId], user), payload)
         IN Returned(Record(updatedUser), insert(usersStorage, userId, updatedUser))

updateUser(userId, payload) ==
    IF ~checkUserId(userId) THEN Returned(Error(ErrUpdateUserNoUser), usersStorage)
    ELSE IF checkPseudo(payload.pseudo)
    THEN Returned(Error(ErrUpdateUserPseudo), usersStorage)
    ELSE IF ~checkPayload(payload)
    THEN Returned(Error(ErrUpdateUserInvalid), usersStorage)
    ELSE LET user == CHOOSE u \in getUser(userId) : TRUE
             updatedUser == spread(spread(spread([id |-> userId], user), payload),
                                   [updatedAt |-> Some(getCurrentDate)])
         IN Returned(Record(updatedUser), insert(usersStorage, userId, updatedUser))

\* mutant of removeUser: a user that a course names as creator is kept
removeUserUnlessCreator(userId) ==
    IF ~checkUserId(userId) THEN Returned(Error(ErrRemoveUserNoUser), usersStorage)
    ELSE IF \E k \in DOMAIN coursesStorage : coursesStorage[k].creatorId = userId
    THEN Returned(Error(ErrRemoveUserNoUser), usersStorage)
    ELSE Returned(OptOf(get(usersStorage, userId)), remove(usersStorage, userId))

removeUser(userId) ==
    IF ~checkUserId(userId) THEN Returned(Error(ErrRemoveUserNoUser), usersStorage)
    ELSE Returned(OptOf(get(usersStorage, userId)), remove(usersStorage, userId))

----------------------------------------------------------------------------
(* Outcome registry: src/unnamed/part_001, lines 185-363 *)

ErrOutcomePayload  == "Error: unexpected values in payload (outcome)"
ErrOutcomeTitle    == "Error: title already exists"
ErrOutcomeNotFound == "Error: no outcome found with id"

getOutcomes == values(outcomesStorage)

getOutcome(id) == get(outcomesStorage, id)

checkOutcomePayload(payload) ==
    Len(trim(payload.title)) > 0 /\ payload.type # Null

isExistingOutcomeTitle(title) ==
    \E k \in DOMAIN outcomesStorage : trim(outcomesStorage[k].title) = trim(title)

chetOutcomeId(id) == containsKey(outcomesStorage, id)

addOutcome(payload) ==
    IF ~checkOutcomePayload(payload)
    THEN Returned(Error(ErrOutcomePayload), outcomesStorage)
    ELSE IF isExistingOutcomeTitle(payload.title)
    THEN Returned(Error(ErrOutcomeTitle), outcomesStorage)
    ELSE LET outcome == spread(spread([id |-> uuidv4], payload),
                               [createdAt |-> getCurrentDate, updatedAt |-> None])
         IN Returned(Record(outcome), insert(outcomesStorage, outcome.id, outcome))

\* mutant of updateOutcome: the update stamps createdAt as well
updateOutcomeRestamps(id, payload) ==
    IF ~chetOutcomeId(id) THEN Returned(Error(ErrOutcomeNotFound), outcomesStorage)
    ELSE IF ~checkOutcomePayload(payload)
    THEN Returned(Error(ErrOutcomePayload), outcomesStorage)
    ELSE LET outcome == CHOOSE o \in get(outcomesStorage, id) : TRUE
             updatedOutcome ==
                 spread(spread(outcome, payload),
                        [createdAt |-> getCurrentDate,
                         updatedAt |-> Some(getCurrentDate)])
         IN IF isExistingOutcomeTitle(payload.title) /\ outcome.title # payload.title
            THEN Returned(Error(ErrOutcomeTitle), outcomesStorage)
            ELSE Returned(Record(updatedOutcome),
                          insert(outcomesStorage, id, updatedOutcome))

updateOutcome(id, payload) ==
    IF ~chetOutcomeId(id) THEN Returned(Error(ErrOutcomeNotFound), outcomesStorage)
    ELSE IF ~checkOutcomePayload(payload)
    THEN Returned(Error(ErrOutcomePayload), outcomesStorage)
    ELSE LET outcome == CHOOSE o \in get(outcomesStorage, id) : TRUE
             updatedOutcome == spread(spread(outcome, payload),
                                      [updatedAt |-> Some(getCurrentDate)])
         IN IF isExistingOutcomeTitle(payload.title) /\ outcome.title # payload.title
            THEN Returned(Error(ErrOutcomeTitle), outcomesStorage)
            ELSE Returned(Record(updatedOutcome),
                          insert(outcomesStorage, id, updatedOutcome))

removeOutcome(id) ==
    IF ~chetOutcomeId(id) THEN Returned(Error(ErrOutcomeNotFound), outcomesStorage)
    ELSE Returned(OptOf(get(outcomesStorage, id)), remove(outcomesStorage, id))

----------------------------------------------------------------------------
(* Course registry: src/unnamed/part_000 *)

ErrCourseExists   == "Error: course already exists"
ErrCoursePayload  == "Error: unexpected values in payload (course)"
ErrCourseNotFound == "Error: no course with id found"

\* mutant of getCourses: the courses whose creator is gone are left out
getCoursesOfLiveCreators ==
    SelectSeq(values(coursesStorage), LAMBDA c : checkUserId(c.creatorId))

getCourses == values(coursesStorage)

getCourse(id) == get(coursesStorage, id)

checkCourseId(courseId) == containsKey(coursesStorage, courseId)

\* mutant of checkCoursePayload: the outcomes are not looked up
checkCoursePayloadCreatorOnly(payload) ==
    Len(trim(payload.title)) >= 0 /\ checkUserId(payload.creatorId)

checkCoursePayload(payload) ==
    IF Len(trim(payload.title)) >= 0 /\ checkUserId(payload.creatorId)
    THEN \A i \in 1 .. Len(payload.outcomes) : chetOutcomeId(payload.outcomes[i])
    ELSE FALSE

isExistingCourseTitle(title) ==
    \E k \in DOMAIN coursesStorage : trim(coursesStorage[k].title) = trim(title)

\* mutant of addCourse: the record is stored before the payload is checked
addCourseStoresFirst(payload) ==
    IF isExistingCourseTitle(payload.title)
    THEN Returned(Error(ErrCourseExists), coursesStorage)
    ELSE LET course == spread(spread([id |-> uuidv4], payload),
                              [createdAt |-> getCurrentDate, updatedAt |-> None])
             stored == insert(coursesStorage, course.id, course)
         IN IF ~checkCoursePayload(payload)
            THEN Returned(Error(ErrCoursePayload), stored)
            ELSE Returned(Record(course), stored)

addCourse(payload) ==
    IF isExistingCourseTitle(payload.title)
    THEN Returned(Error(ErrCourseExists), coursesStorage)
    ELSE IF ~checkCoursePayload(payload)
    THEN Returned(Error(ErrCoursePayload), coursesStorage)
    ELSE LET course == spread(spread([id |-> uuidv4], payload),
                              [createdAt |-> getCurrentDate, updatedAt |-> None])
         IN Returned(Record(course), insert(coursesStorage, course.id, course))

updateCourse(id, payload) ==
    IF checkCourseId(id) THEN Returned(Error(ErrCourseNotFound), coursesStorage)
    ELSE IF ~checkCourseId(id) THEN Returned(Error(ErrCoursePayload), coursesStorage)
    ELSE LET course == CHOOSE c \in getCourse(id) : TRUE
             updatedCourse == spread(spread(course, payload),
                                     [updatedAt |-> Some(getCurrentDate)])
         IN Returned(Record(updatedCourse), insert(coursesStorage, id, updatedCourse))

removeCourse(id) ==
    IF ~checkCourseId(id) THEN Returned(Error(ErrCourseNotFound), coursesStorage)
    ELSE Returned(Record(CHOOSE c \in get(coursesStorage, id) : TRUE),
                  remove(coursesStorage, id))

----------------------------------------------------------------------------
(* Session registry: src/src/session/session.ts declares Session,          *)
(* SessionPayload and sessionsStorage and no operation on them.  The       *)
(* operations are those the specification gives every registry (4.1), with *)
(* the course and the owner looked up in the Course and User registries.   *)

ErrSessionReference == "ReferenceNotFound"
ErrSessionNotFound  == "NotFound"

getSessions == values(sessionsStorage)

getSession(id) == get(sessionsStorage, id)

checkSessionId(id) == containsKey(sessionsStorage, id)

\* mutant of checkSessionPayload: the course is not looked up
checkSessionPayloadOwnerOnly(payload) == checkUserId(payload.owner)

checkSessionPayload(payload) ==
    checkCourseId(payload.course) /\ checkUserId(payload.owner)

addSession(payload) ==
    IF ~checkSessionPayload(payload)
    THEN Returned(Error(ErrSessionReference), sessionsStorage)
    ELSE LET session == spread(spread([id |-> uuidv4], payload),
                               [createdAt |-> getCurrentDate, updatedAt |-> None])
         IN Returned(Record(session), insert(sessionsStorage, session.id, session))

updateSession(id, payload) ==
    IF ~checkSessionId(id) THEN Returned(Error(ErrSessionNotFound), sessionsStorage)
    ELSE IF ~checkSessionPayload(payload)
    THEN Returned(Error(ErrSessionReference), sessionsStorage)
    ELSE LET session == CHOOSE x \in getSession(id) : TRUE
             updatedSession == spread(spread(session, payload),
                                      [updatedAt |-> Some(getCurrentDate)])
         IN Returned(Record(updatedSession),
                     insert(sessionsStorage, id, updatedSession))

removeSession(id) ==
    IF ~checkSessionId(id) THEN Returned(Error(ErrSessionNotFound), sessionsStorage)
    ELSE Returned(Record(CHOOSE x \in getSession(id) : TRUE),
                  remove(sessionsStorage, id))

----------------------------------------------------------------------------
(* The calls the canister serves, one at a time.  A handler writes to the  *)
(* map of its own registry only, and an add that gets as far as uuidv4()   *)
(* uses up one id.                                                         *)

\* the four maps after a call that returned r
AfterUserCall(r) == <<r.store, outcomesStorage, coursesStorage, sessionsStorage>>
AfterOutcomeCall(r) == <<usersStorage, r.store, coursesStorage, sessionsStorage>>
AfterCourseCall(r) == <<usersStorage, outcomesStorage, r.store, sessionsStorage>>
AfterSessionCall(r) == <<usersStorage, outcomesStorage, coursesStorage, r.store>>

\* the call leaves the four maps t
Leaves(t) ==
    /\ usersStorage' = t[1]
    /\ outcomesStorage' = t[2]
    /\ coursesStorage' = t[3]
    /\ sessionsStorage' = t[4]

UsesId(r) == IF r.ret.kind = "error" THEN 0 ELSE 1

CallAddUser(payload) ==
    \E r \in {addUser(payload)} :
        /\ nextId + UsesId(r) <= MaxIds + 1
        /\ Leaves(AfterUserCall(r))
        /\ nextId' = nextId + UsesId(r)
        /\ UNCHANGED time

CallUpdateUser(userId, payload) ==
    /\ Leaves(AfterUserCall(updateUser(userId, payload)))
    /\ UNCHANGED <<time, nextId>>

CallRemoveUser(userId) ==
    /\ Leaves(AfterUserCall(removeUser(userId)))
    /\ UNCHANGED <<time, nextId>>

CallAddOutcome(payload) ==
    \E r \in {addOutcome(payload)} :
        /\ nextId + UsesId(r) <= MaxIds + 1
        /\ Leaves(AfterOutcomeCall(r))
        /\ nextId' = nextId + UsesId(r)
        /\ UNCHANGED time

CallUpdateOutcome(id, payload) ==
    /\ Leaves(AfterOutcomeCall(updateOutcome(id, payload)))
    /\ UNCHANGED <<time, nextId>>

CallRemoveOutcome(id) ==
    /\ Leaves(AfterOutcomeCall(removeOutcome(id)))
    /\ UNCHANGED <<time, nextId>>

CallAddCourse(payload) ==
    \E r \in {addCourse(payload)} :
        /\ nextId + UsesId(r) <= MaxIds + 1
        /\ Leaves(AfterCourseCall(r))
        /\ nextId' = nextId + UsesId(r)
        /\ UNCHANGED time

CallUpdateCourse(id, payload) ==
    /\ Leaves(AfterCourseCall(updateCourse(id, payload)))
    /\ UNCHANGED <<time, nextId>>

CallRemoveCourse(id) ==
    /\ Leaves(AfterCourseCall(removeCourse(id)))
    /\ UNCHANGED <<time, nextId>>

CallAddSession(payload) ==
    \E r \in {addSession(payload)} :
        /\ nextId + UsesId(r) <= MaxIds + 1
        /\ Leaves(AfterSessionCall(r))
        /\ nextId' = nextId + UsesId(r)
        /\ UNCHANGED time

CallUpdateSession(id, payload) ==
    /\ Leaves(AfterSessionCall(updateSession(id, payload)))
    /\ UNCHANGED <<time, nextId>>

CallRemoveSession(id) ==
    /\ Leaves(AfterSessionCall(removeSession(id)))
    /\ UNCHANGED <<time, nextId>>

\* The canister clock moves on between calls.  The handlers only store what
\* getCurrentDate() makes of it, so the clock is followed from the middle of
\* one millisecond to the start of the next: a Date then takes two values.
Tick ==
    /\ time < NsPerMs
    /\ time' = time + NsPerMs \div 2
    /\ UNCHANGED <<storages, nextId>>

----------------------------------------------------------------------------
(* The canister after deployment: the maps are empty, no id is used, and   *)
(* the clock stands part-way through a millisecond                         *)

EmptyMap == [x \in {} |-> x]

Init ==
    /\ usersStorage = EmptyMap
    /\ outcomesStorage = EmptyMap
    /\ coursesStorage = EmptyMap
    /\ sessionsStorage = EmptyMap
    /\ time = NsPerMs \div 2
    /\ nextId = 1

Next ==
    \/ \E p \in UserPayloads : CallAddUser(p)
    \/ \E id \in Ids, p \in UserPayloads : CallUpdateUser(id, p)
    \/ \E id \in Ids : CallRemoveUser(id)
    \/ \E p \in OutcomePayloads : CallAddOutcome(p)
    \/ \E id \in Ids, p \in OutcomePayloads : CallUpdateOutcome(id, p)
    \/ \E id \in Ids : CallRemoveOutcome(id)
    \/ \E p \in CoursePayloads : CallAddCourse(p)
    \/ \E id \in Ids, p \in CoursePayloads : CallUpdateCourse(id, p)
    \/ \E id \in Ids : CallRemoveCourse(id)
    \/ Tick

Spec == Init /\ [][Next]_vars

\* the same calls, with the payloads that leave a name or a title blank
NextBlank ==
    \/ \E p \in UserPayloadsBlank : CallAddUser(p)
    \/ \E id \in Ids, p \in UserPayloadsBlank : CallUpdateUser(id, p)
    \/ \E id \in Ids : CallRemoveUser(id)
    \/ \E p \in OutcomePayloads : CallAddOutcome(p)
    \/ \E id \in Ids, p \in OutcomePayloads : CallUpdateOutcome(id, p)
    \/ \E id \in Ids : CallRemoveOutcome(id)
    \/ \E p \in CoursePayloadsBlank : CallAddCourse(p)
    \/ \E id \in Ids, p \in CoursePayloadsBlank : CallUpdateCourse(id, p)
    \/ \E id \in Ids : CallRemoveCourse(id)
    \/ Tick

SpecBlank == Init /\ [][NextBlank]_vars

\* the same calls, with the user payloads whose name has one character
NextShort ==
    \/ \E p \in UserPayloadsShort : CallAddUser(p)
    \/ \E id \in Ids, p \in UserPayloadsShort : CallUpdateUser(id, p)
    \/ \E id \in Ids : CallRemoveUser(id)
    \/ \E p \in OutcomePayloads : CallAddOutcome(p)
    \/ \E id \in Ids, p \in OutcomePayloads : CallUpdateOutcome(id, p)
    \/ \E id \in Ids : CallRemoveOutcome(id)
    \/ \E p \in CoursePayloads : CallAddCourse(p)
    \/ \E id \in Ids, p \in CoursePayloads : CallUpdateCourse(id, p)
    \/ \E id \in Ids : CallRemoveCourse(id)
    \/ Tick

SpecShort == Init /\ [][NextShort]_vars

\* the calls of Next, and those on the Session registry
NextSession ==
    \/ Next
    \/ \E p \in SessionPayloads : CallAddSession(p)
    \/ \E id \in Ids, p \in SessionPayloads : CallUpdateSession(id, p)
    \/ \E id \in Ids : CallRemoveSession(id)

SpecSession == Init /\ [][NextSession]_vars

----------------------------------------------------------------------------
(* The properties checked.  A property of a call is stated of the          *)
(* handler's result in every reachable state and for every payload and id  *)
(* the call may be made with: the call's action leaves exactly that result *)
(* behind.                                                                 *)

\* the error kinds of the specification, by the messages of the handlers
NotFoundErrors ==
    {ErrUpdateUserNoUser, ErrRemoveUserNoUser, ErrOutcomeNotFound, ErrCourseNotFound}
DuplicateErrors ==
    {ErrAddUserPseudo, ErrUpdateUserPseudo, ErrOutcomeTitle, ErrCourseExists}
InvalidErrors ==
    {ErrAddUserInvalid, ErrUpdateUserInvalid, ErrOutcomePayload, ErrCoursePayload}

IsError(r) == r.ret.kind = "error"
IsNotFound(r) == IsError(r) /\ r.ret.msg \in NotFoundErrors

LiveUsers == DOMAIN usersStorage
LiveOutcomes == DOMAIN outcomesStorage
LiveCourses == DOMAIN coursesStorage

\* the payload names a creator or an outcome that is not live
BadRefs(p) ==
    \/ p.creatorId \notin LiveUsers
    \/ \E i \in 1 .. Len(p.outcomes) : p.outcomes[i] \notin LiveOutcomes

\* every record the map m holds and coursesStorage does not hold the same
\* names a live creator and live outcomes only
WritesLiveRefs(m) ==
    \A k \in DOMAIN m :
        (k \notin LiveCourses \/ m[k] # coursesStorage[k]) => ~BadRefs(m[k])

\* C1: no two live users have equal trimmed pseudos, no two live outcomes
\* equal trimmed titles, and no two live courses equal trimmed titles.
C1_Uniqueness ==
    /\ \A a, b \in LiveUsers :
         a # b => trim(usersStorage[a].pseudo) # trim(usersStorage[b].pseudo)
    /\ \A a, b \in LiveOutcomes :
         a # b => trim(outcomesStorage[a].title) # trim(outcomesStorage[b].title)
    /\ \A a, b \in LiveCourses :
         a # b => trim(coursesStorage[a].title) # trim(coursesStorage[b].title)

\* two users are live, one of them updated, beside a course or an outcome
C1_TwoUsersOneUpdated ==
    /\ Cardinality(LiveUsers) = 2
    /\ \E k \in LiveUsers : usersStorage[k].updatedAt # None
    /\ LiveOutcomes \cup LiveCourses # {}

\* C2: addCourse and updateCourse called with a creatorId that is not a live
\* user, or with an outcome id that is not a live outcome, return an error and
\* store nothing; so whatever course record a call writes names a live
\* creator and live outcomes only.
C2_CourseReferencesValidated ==
    /\ \A p \in CoursePayloads : \A r \in {addCourse(p)} :
         /\ BadRefs(p) => IsError(r) /\ r.store = coursesStorage
         /\ WritesLiveRefs(r.store)
    /\ \A id \in Ids, p \in CoursePayloads : \A r \in {updateCourse(id, p)} :
         /\ BadRefs(p) => IsError(r) /\ r.store = coursesStorage
         /\ WritesLiveRefs(r.store)

\* a course was stored that names a live creator and a live outcome
C2_CourseWithOutcomeStored ==
    \E k \in LiveCourses :
        /\ Len(coursesStorage[k].outcomes) > 0
        /\ ~BadRefs(coursesStorage[k])

\* the record updateCourse is to store: the prior one with the payload's
\* fields, its id and createdAt, and updatedAt the current time
MergedCourse(id, p) ==
    [id |-> coursesStorage[id].id,
     title |-> p.title, outcomes |-> p.outcomes, creatorId |-> p.creatorId,
     createdAt |-> coursesStorage[id].createdAt,
     updatedAt |-> Some(getCurrentDate)]

\* C3: updateCourse(id, payload) on a live course, with a live creator, live
\* outcomes and a title no other live course holds, stores under id and
\* returns the prior record with the payload's fields overwritten, id and
\* createdAt kept, and updatedAt the current time.
C3_UpdateCourseMerges ==
    \A id \in LiveCourses, p \in CoursePayloads :
        ( /\ ~BadRefs(p)
          /\ \A k \in LiveCourses \ {id} :
                trim(coursesStorage[k].title) # trim(p.title) )
        => /\ updateCourse(id, p).ret = Record(MergedCourse(id, p))
           /\ updateCourse(id, p).store = insert(coursesStorage, id, MergedCourse(id, p))

\* C4: update and remove called with an id that is not live in the registry
\* return the not-found error and leave the registry as it was.
C4_NotFoundOnAbsentId ==
    /\ \A id \in Ids \ LiveUsers :
         /\ IsNotFound(removeUser(id)) /\ removeUser(id).store = usersStorage
         /\ \A p \in UserPayloads :
              IsNotFound(updateUser(id, p)) /\ updateUser(id, p).store = usersStorage
    /\ \A id \in Ids \ LiveOutcomes :
         /\ IsNotFound(removeOutcome(id)) /\ removeOutcome(id).store = outcomesStorage
         /\ \A p \in OutcomePayloads :
              /\ IsNotFound(updateOutcome(id, p))
              /\ updateOutcome(id, p).store = outcomesStorage
    /\ \A id \in Ids \ LiveCourses :
         /\ IsNotFound(removeCourse(id)) /\ removeCourse(id).store = coursesStorage
         /\ \A p \in CoursePayloads :
              /\ IsNotFound(updateCourse(id, p))
              /\ updateCourse(id, p).store = coursesStorage

\* C5: updateUser on a live user, with a valid payload whose pseudo is that
\* user's own and matches no other live user, succeeds.
C5_UserKeepsOwnPseudo ==
    \A id \in LiveUsers, p \in UserPayloads :
        ( /\ checkPayload(p)
          /\ trim(p.name) # <<>> /\ trim(p.pseudo) # <<>>
          /\ p.pseudo = usersStorage[id].pseudo
          /\ \A k \in LiveUsers \ {id} :
                trim(usersStorage[k].pseudo) # trim(p.pseudo) )
        => /\ updateUser(id, p).ret.kind = "record"
           /\ updateUser(id, p).ret.msg # ErrUpdateUserPseudo

\* C6: updateOutcome on a live outcome with a valid payload returns the
\* duplicate-title error only if a live outcome other than id has the
\* payload's title after trimming.
C6_OutcomeDuplicateOnlyOfOther ==
    \A id \in LiveOutcomes, p \in OutcomePayloads :
        (checkOutcomePayload(p) /\ updateOutcome(id, p).ret = Error(ErrOutcomeTitle))
        => \E k \in LiveOutcomes \ {id} :
              trim(outcomesStorage[k].title) = trim(p.title)

\* C7: addCourse with a title that is empty after trimming returns an error
\* and stores nothing, so no live course has an empty trimmed title.
C7_BlankCourseTitleRejected ==
    /\ \A p \in CoursePayloadsBlank :
         trim(p.title) = <<>>
         => IsError(addCourse(p)) /\ addCourse(p).store = coursesStorage
    /\ \A k \in LiveCourses : trim(coursesStorage[k].title) # <<>>

\* C8: addUser and updateUser with a name or a pseudo that is empty after
\* trimming return the invalid-payload error and store nothing, so no live
\* user has an empty trimmed name or pseudo.
C8_BlankUserFieldsRejected ==
    /\ \A p \in UserPayloadsBlank :
         (trim(p.name) = <<>> \/ trim(p.pseudo) = <<>>)
         => /\ addUser(p) = Returned(Error(ErrAddUserInvalid), usersStorage)
            /\ \A id \in LiveUsers :
                 updateUser(id, p) = Returned(Error(ErrUpdateUserInvalid), usersStorage)
    /\ \A k \in LiveUsers :
         trim(usersStorage[k].name) # <<>> /\ trim(usersStorage[k].pseudo) # <<>>

\* C9: an add, update or remove that returns an error leaves all the
\* registries as they were.
C9_ErrorLeavesRegistries ==
    /\ \A p \in UserPayloads :
         /\ \A r \in {addUser(p)} : IsError(r) => AfterUserCall(r) = storages
         /\ \A id \in Ids :
              \A r \in {updateUser(id, p)} : IsError(r) => AfterUserCall(r) = storages
    /\ \A p \in OutcomePayloads :
         /\ \A r \in {addOutcome(p)} : IsError(r) => AfterOutcomeCall(r) = storages
         /\ \A id \in Ids :
              \A r \in {updateOutcome(id, p)} :
                  IsError(r) => AfterOutcomeCall(r) = storages
    /\ \A p \in CoursePayloads :
         /\ \A r \in {addCourse(p)} : IsError(r) => AfterCourseCall(r) = storages
         /\ \A id \in Ids :
              \A r \in {updateCourse(id, p)} :
                  IsError(r) => AfterCourseCall(r) = storages
    /\ \A id \in Ids :
         /\ \A r \in {removeUser(id)} : IsError(r) => AfterUserCall(r) = storages
         /\ \A r \in {removeOutcome(id)} : IsError(r) => AfterOutcomeCall(r) = storages
         /\ \A r \in {removeCourse(id)} : IsError(r) => AfterCourseCall(r) = storages

\* every registry holds a record, and calls on each of them return errors
C9_ErrorsWithRecordsStored ==
    /\ LiveUsers # {} /\ LiveOutcomes # {} /\ LiveCourses # {}
    /\ \E p \in UserPayloads : IsError(addUser(p))
    /\ \E id \in LiveOutcomes, p \in OutcomePayloads : IsError(updateOutcome(id, p))
    /\ \E p \in CoursePayloads : IsError(addCourse(p))
    /\ \E id \in Ids : IsError(removeCourse(id))

\* the add that returned r from the map m, at the current time, created a
\* record under an id no registry held, which m now returns on get, and
\* left the records of m as they were
AddedFresh(r, m, payload) ==
    IsError(r) \/
    \E rec \in r.ret.val :
        /\ r.ret = Record(rec)
        /\ rec.id \notin LiveUsers \cup LiveOutcomes \cup LiveCourses
        /\ get(r.store, rec.id) = Some(rec)
        /\ \A f \in DOMAIN payload : rec[f] = payload[f]
        /\ DOMAIN rec = DOMAIN payload \cup {"id", "createdAt", "updatedAt"}
        /\ rec.createdAt = getCurrentDate
        /\ rec.updatedAt = None
        /\ DOMAIN r.store = DOMAIN m \cup {rec.id}
        /\ \A k \in DOMAIN m : r.store[k] = m[k]

\* C10: after a successful add the returned record's id was not live before
\* the call, get(id) returns the returned record (the payload's fields,
\* createdAt set, updatedAt null), and the records live before are unchanged.
C10_AddCreatesFreshRecord ==
    /\ \A p \in UserPayloads :
         \A r \in {addUser(p)} : AddedFresh(r, usersStorage, p)
    /\ \A p \in OutcomePayloads :
         \A r \in {addOutcome(p)} : AddedFresh(r, outcomesStorage, p)
    /\ \A p \in CoursePayloads :
         \A r \in {addCourse(p)} : AddedFresh(r, coursesStorage, p)

\* an add has succeeded in every registry
C10_AddedInEveryRegistry ==
    /\ LiveUsers # {} /\ LiveOutcomes # {} /\ LiveCourses # {}
    /\ nextId = MaxIds + 1

\* the remove that returned r from the map m deleted the record under id
\* and nothing else, and returned the record m held
Removed(r, m, id) ==
    /\ ~IsError(r)
    /\ r.ret.val = {m[id]}
    /\ get(r.store, id) = None
    /\ ~containsKey(r.store, id)
    /\ DOMAIN r.store = DOMAIN m \ {id}
    /\ \A k \in DOMAIN r.store : r.store[k] = m[k]

KeyIsId(m) == \A k \in DOMAIN m : m[k].id = k

\* the call that returned r from the map m left the id and the createdAt of
\* every record that stays, and a record it returns for id carries them too
KeepsIdAndCreatedAt(r, m) ==
    /\ \A k \in DOMAIN r.store \cap DOMAIN m :
         r.store[k].id = m[k].id /\ r.store[k].createdAt = m[k].createdAt
    /\ \A rec \in r.ret.val :
         rec.id \in DOMAIN m
         => rec.id = m[rec.id].id /\ rec.createdAt = m[rec.id].createdAt

\* an update of id that returns a record returns and stores it under id
UpdatesUnderId(r, id) ==
    r.ret.kind = "record" => r.ret.val = {r.store[id]} /\ r.store[id].id = id

\* C12: every live record is stored under the key that is its id field, and
\* no call changes the id or the createdAt of a record that stays live: an
\* update leaves them as the add that created the record set them.
C12_IdAndCreatedAtImmutable ==
    /\ KeyIsId(usersStorage) /\ KeyIsId(outcomesStorage) /\ KeyIsId(coursesStorage)
    /\ \A p \in UserPayloads :
         /\ KeepsIdAndCreatedAt(addUser(p), usersStorage)
         /\ \A id \in Ids : \A r \in {updateUser(id, p)} :
              KeepsIdAndCreatedAt(r, usersStorage) /\ UpdatesUnderId(r, id)
    /\ \A p \in OutcomePayloads :
         /\ KeepsIdAndCreatedAt(addOutcome(p), outcomesStorage)
         /\ \A id \in Ids : \A r \in {updateOutcome(id, p)} :
              KeepsIdAndCreatedAt(r, outcomesStorage) /\ UpdatesUnderId(r, id)
    /\ \A p \in CoursePayloads :
         /\ KeepsIdAndCreatedAt(addCourse(p), coursesStorage)
         /\ \A id \in Ids : \A r \in {updateCourse(id, p)} :
              KeepsIdAndCreatedAt(r, coursesStorage) /\ UpdatesUnderId(r, id)
    /\ \A id \in Ids :
         /\ KeepsIdAndCreatedAt(removeUser(id), usersStorage)
         /\ KeepsIdAndCreatedAt(removeOutcome(id), outcomesStorage)
         /\ KeepsIdAndCreatedAt(removeCourse(id), coursesStorage)

\* a user and an outcome created in one millisecond were updated in the next
C12_UpdatedAfterCreation ==
    /\ \E k \in LiveUsers :
         usersStorage[k].updatedAt = Some(usersStorage[k].createdAt + 1)
    /\ \E k \in LiveOutcomes :
         outcomesStorage[k].updatedAt = Some(outcomesStorage[k].createdAt + 1)

\* the update of id that returned r from the map m: if it succeeded, the
\* record returned and stored has updatedAt the time of the call; no other
\* record's updatedAt is touched, nor that of id if the update failed
StampsUpdatedAt(r, m, id) ==
    /\ ~IsError(r) =>
         /\ r.store[id].updatedAt = Some(getCurrentDate)
         /\ \A rec \in r.ret.val : rec.updatedAt = Some(getCurrentDate)
    /\ \A k \in DOMAIN m :
         (k # id \/ IsError(r)) => r.store[k].updatedAt = m[k].updatedAt

\* the add or remove that returned r from the map m: a record it created
\* has no updatedAt, and the records that stay keep theirs
LeavesUpdatedAt(r, m) ==
    \A k \in DOMAIN r.store :
        r.store[k].updatedAt = IF k \in DOMAIN m THEN m[k].updatedAt ELSE None

\* C13: a record is created with updatedAt null, every successful update of
\* its id sets the stored updatedAt to the time of that call, and no other
\* call changes it: updatedAt is null exactly as long as no update of the
\* record has succeeded.
C13_UpdatedAtLifeCycle ==
    /\ \A p \in UserPayloads :
         /\ LeavesUpdatedAt(addUser(p), usersStorage)
         /\ \A id \in Ids : StampsUpdatedAt(updateUser(id, p), usersStorage, id)
    /\ \A p \in OutcomePayloads :
         /\ LeavesUpdatedAt(addOutcome(p), outcomesStorage)
         /\ \A id \in Ids :
              StampsUpdatedAt(updateOutcome(id, p), outcomesStorage, id)
    /\ \A p \in CoursePayloads :
         /\ LeavesUpdatedAt(addCourse(p), coursesStorage)
         /\ \A id \in Ids :
              StampsUpdatedAt(updateCourse(id, p), coursesStorage, id)
    /\ \A id \in Ids :
         /\ LeavesUpdatedAt(removeUser(id), usersStorage)
         /\ LeavesUpdatedAt(removeOutcome(id), outcomesStorage)
         /\ LeavesUpdatedAt(removeCourse(id), coursesStorage)

\* of a user and an outcome created in one millisecond, the user was
\* updated in the next and the outcome never
C13_OneUpdatedOneNot ==
    \E a \in LiveUsers, b \in LiveOutcomes :
        /\ usersStorage[a].createdAt = outcomesStorage[b].createdAt
        /\ usersStorage[a].updatedAt = Some(usersStorage[a].createdAt + 1)
        /\ outcomesStorage[b].updatedAt = None

\* the records of a list
Records(list) == { list[i] : i \in 1 .. Len(list) }

\* the list holds the records of the map m, each once
ListsLive(list, m) ==
    /\ Len(list) = Cardinality(DOMAIN m)
    /\ Records(list) = { m[k] : k \in DOMAIN m }

\* the call that returned r from the map m changed the length of the
\* registry's list by delta if it succeeded, and not at all if it failed
ListGrows(r, m, delta) ==
    Len(values(r.store)) = Len(values(m)) + (IF IsError(r) THEN 0 ELSE delta)

\* C14: the list of a registry holds exactly its live records; a successful
\* add makes it one longer, a successful remove one shorter, an update or a
\* failed call leaves its length, and it starts empty: its length is the
\* successful adds less the successful removes.
C14_ListReturnsLiveRecords ==
    /\ ListsLive(getUsers, usersStorage)
    /\ ListsLive(getOutcomes, outcomesStorage)
    /\ ListsLive(getCourses, coursesStorage)
    /\ nextId = 1 => getUsers = <<>> /\ getOutcomes = <<>> /\ getCourses = <<>>
    /\ Len(getUsers) + Len(getOutcomes) + Len(getCourses) <= nextId - 1
    /\ \A p \in UserPayloads :
         /\ ListGrows(addUser(p), usersStorage, 1)
         /\ \A id \in Ids : ListGrows(updateUser(id, p), usersStorage, 0)
    /\ \A p \in OutcomePayloads :
         /\ ListGrows(addOutcome(p), outcomesStorage, 1)
         /\ \A id \in Ids : ListGrows(updateOutcome(id, p), outcomesStorage, 0)
    /\ \A p \in CoursePayloads :
         /\ ListGrows(addCourse(p), coursesStorage, 1)
         /\ \A id \in Ids : ListGrows(updateCourse(id, p), coursesStorage, 0)
    /\ \A id \in Ids :
         /\ ListGrows(removeUser(id), usersStorage, 0 - 1)
         /\ ListGrows(removeOutcome(id), outcomesStorage, 0 - 1)
         /\ ListGrows(removeCourse(id), coursesStorage, 0 - 1)

\* one user added and removed, one outcome and one course added: the lists
\* have 0, 1 and 1 records
C14_ListsAfterAddsAndRemove ==
    /\ nextId = MaxIds + 1
    /\ Len(getUsers) = 0 /\ Len(getOutcomes) = 1 /\ Len(getCourses) = 1

\* the payload's pseudo is, trimmed, that of a live user
PseudoIsLive(p) ==
    \E k \in LiveUsers : trim(usersStorage[k].pseudo) = trim(p.pseudo)
\* the payload's title is, trimmed, that of a live outcome
OutcomeTitleIsLive(p) ==
    \E k \in LiveOutcomes : trim(outcomesStorage[k].title) = trim(p.title)
\* the payload's title is, trimmed, that of a live course
CourseTitleIsLive(p) ==
    \E k \in LiveCourses : trim(coursesStorage[k].title) = trim(p.title)

\* C15: for a payload that is valid but for its unique field (no blank name,
\* pseudo or title, no null type, a live creator and live outcomes), add
\* returns the duplicate error if and only if a record live at the call has
\* the same trimmed pseudo or title.
C15_DuplicateOnlyOfLiveRecord ==
    /\ \A p \in UserPayloadsShort :
         (trim(p.name) # <<>> /\ trim(p.pseudo) # <<>>)
         => (addUser(p).ret = Error(ErrAddUserPseudo) <=> PseudoIsLive(p))
    /\ \A p \in OutcomePayloads :
         (trim(p.title) # <<>> /\ p.type # Null)
         => (addOutcome(p).ret = Error(ErrOutcomeTitle) <=> OutcomeTitleIsLive(p))
    /\ \A p \in CoursePayloads :
         (trim(p.title) # <<>> /\ ~BadRefs(p))
         => (addCourse(p).ret = Error(ErrCourseExists) <=> CourseTitleIsLive(p))

\* a live course names id as its creator, or among its outcomes
IsCreator(id) == \E k \in LiveCourses : coursesStorage[k].creatorId = id
IsCourseOutcome(id) ==
    \E k \in LiveCourses :
        \E i \in 1 .. Len(coursesStorage[k].outcomes) :
            coursesStorage[k].outcomes[i] = id

\* C17: removeUser on a live user that a live course names as creator, and
\* removeOutcome on a live outcome that a live course lists, succeed, delete
\* the record and leave every course record as it was.
C17_RemoveNeitherBlockedNorCascaded ==
    /\ \A id \in LiveUsers : \A r \in {removeUser(id)} :
         IsCreator(id) =>
             /\ ~IsError(r)
             /\ ~containsKey(r.store, id)
             /\ AfterUserCall(r)[3] = coursesStorage
    /\ \A id \in LiveOutcomes : \A r \in {removeOutcome(id)} :
         IsCourseOutcome(id) =>
             /\ ~IsError(r)
             /\ ~containsKey(r.store, id)
             /\ AfterOutcomeCall(r)[3] = coursesStorage

\* a live course names a creator and an outcome that were both removed
C17_CourseWithDanglingReferences ==
    \E k \in LiveCourses :
        /\ coursesStorage[k].creatorId \notin LiveUsers
        /\ Len(coursesStorage[k].outcomes) > 0
        /\ coursesStorage[k].outcomes[1] \notin LiveOutcomes

LiveSessions == DOMAIN sessionsStorage

\* the payload names a course or an owner that is not live
BadSessionRefs(p) == p.course \notin LiveCourses \/ p.owner \notin LiveUsers

C19_ErrorPrecedence ==
    /\ \A p \in CoursePayloadsBlank :
         (CourseTitleIsLive(p) /\ BadRefs(p))
         => addCourse(p) = Returned(Error(ErrCourseExists), coursesStorage)
    /\ \A p \in UserPayloadsBlank :
         ((trim(p.name) = <<>> \/ trim(p.pseudo) = <<>>) /\ PseudoIsLive(p))
         => addUser(p) = Returned(Error(ErrAddUserInvalid), usersStorage)

====
